---- MODULE Spec2Model ----
(***************************************************************************)
(* Model of sky/provision/azure/instance.py: open_ports and cleanup_ports  *)
(* running against the network security groups of one resource group.      *)
(*                                                                         *)
(* The store (the Azure control plane) holds, for every network security   *)
(* group, its ordered list of security rules.  open_ports lists the        *)
(* groups, and for each of them scans the rules, extends or creates the    *)
(* rule named sky-ports-<cluster>, and writes the group back.              *)
(***************************************************************************)
EXTENDS Integers, Sequences, FiniteSets, TLC

\* ------------------------------------------------------------------ bounds
\* Number of open_ports / cleanup_ports calls in one behaviour.
MaxCalls == 2

\* ------------------------------------------------------------ input domains
\* The security groups of the resource group, in the order list returns them.
NsgNames == <<"nsg-A", "nsg-B">>

Clusters == {"c1", "c2"}

\* The port lists a caller passes (single ports and ranges, as strings).
PortLists == { <<>>, <<"8000", "8001-8010">> }

\* provider_config: absent (None), or a dict holding some of the two keys.
ConfigKeys == {"subscription_id", "resource_group"}

NoConfig == [present |-> FALSE, keys |-> {}]

Configs == {NoConfig} \cup
           { [present |-> TRUE, keys |-> ks] :
               ks \in { {"subscription_id"}, {"resource_group"}, ConfigKeys } }

\* The value of provider_config['resource_group'].
ResourceGroup == "rg"

\* --------------------------------------------------------------- the rules
Rule(name, direction, priority, dports) ==
    [ name                       |-> name,
      priority                   |-> priority,
      protocol                   |-> "Tcp",
      access                     |-> "Allow",
      direction                  |-> direction,
      source_address_prefix      |-> "*",
      source_port_range          |-> "*",
      destination_address_prefix |-> "*",
      destination_port_ranges    |-> dports ]

\* azure.create_security_rule(name=..., priority=..., protocol='Tcp', ...)
create_security_rule(name, priority, dports) ==
    Rule(name, "Inbound", priority, dports)

\* rule_name = f'sky-ports-{cluster_name_on_cloud}'
RuleName(cluster_name_on_cloud) == "sky-ports-" \o cluster_name_on_cloud

\* Rule lists a security group may hold before the first call.
InitRuleLists ==
    { <<>>,
      << Rule("allow-out", "Outbound", 200, <<"443">>) >>,
      << Rule("web", "Inbound", 300, <<"80">>),
         Rule("default-allow-ssh", "Inbound", 100, <<"22">>),
         Rule("allow-out", "Outbound", 400, <<"443">>) >>,
      << Rule("default-allow-ssh", "Inbound", 100, <<"22">>),
         Rule(RuleName("c1"), "Inbound", 101, <<"22">>),
         Rule("web", "Inbound", 300, <<"80">>) >>,
      << Rule(RuleName("c1"), "Inbound", 101, <<"22">>),
         Rule(RuleName("c1"), "Inbound", 102, <<"80">>) >> }


\* ------------------------------------------------- the scan of one group
\* Python's max(a, b) on integers.
PyMax(a, b) == IF b > a THEN b ELSE a

\* A plausible slip: the direction test is dropped.
InboundPriorityAnyDirection(max_inbound_priority, rule) ==
    PyMax(max_inbound_priority, rule.priority)

\* if rule.direction == 'Inbound':
\*     max_inbound_priority = max(max_inbound_priority, rule.priority)
InboundPriority(max_inbound_priority, rule) ==
    IF rule.direction = "Inbound"
    THEN PyMax(max_inbound_priority, rule.priority)
    ELSE max_inbound_priority

\* The loop "for rule in nsg.security_rules" from position i on: the running
\* maximum, and whether (and where) the loop broke on a rule named rule_name.
RECURSIVE ScanRules(_, _, _, _)
ScanRules(security_rules, i, rule_name, max_inbound_priority) ==
    IF i > Len(security_rules)
    THEN [ max_inbound_priority |-> max_inbound_priority,
           rule_exist |-> FALSE, at |-> 0 ]
    ELSE LET rule == security_rules[i]
             m    == InboundPriority(max_inbound_priority, rule)
         IN  IF rule.name = rule_name
             THEN [ max_inbound_priority |-> m, rule_exist |-> TRUE, at |-> i ]
             ELSE ScanRules(security_rules, i + 1, rule_name, m)

\* Plausible slips in the extension of the port list.
ExtendPortsInFront(destination_port_ranges, ports) ==
    ports \o destination_port_ranges

ExtendPortsDeduplicated(destination_port_ranges, ports) ==
    destination_port_ranges \o
    SelectSeq(ports, LAMBDA p :
        \A k \in 1..Len(destination_port_ranges) : destination_port_ranges[k] # p)

\* Assignment in place of extend.
ExtendPortsReplace(destination_port_ranges, ports) == ports

\* rule.destination_port_ranges.extend(ports)
ExtendPorts(destination_port_ranges, ports) ==
    destination_port_ranges \o ports

\* Plausible slips in the priority of the new rule.
NewPriorityNoIncrement(max_inbound_priority) == max_inbound_priority

NewPriorityFromAzureMinimum(max_inbound_priority) ==
    IF max_inbound_priority = 0 THEN 100 ELSE max_inbound_priority + 1

\* priority=max_inbound_priority + 1
NewPriority(max_inbound_priority) == max_inbound_priority + 1

\* Plausible slips in the choice between extending and creating.
UpdatedRulesAlwaysAppend(security_rules, rule_name, ports) ==
    LET s == ScanRules(security_rules, 1, rule_name, 0)
    IN  Append(security_rules,
               create_security_rule(rule_name,
                                    NewPriority(s.max_inbound_priority), ports))

UpdatedRulesReplaceRule(security_rules, rule_name, ports) ==
    LET s == ScanRules(security_rules, 1, rule_name, 0)
        r == create_security_rule(rule_name,
                                  NewPriority(s.max_inbound_priority), ports)
    IN  IF s.rule_exist
        THEN [security_rules EXCEPT ![s.at] = r]
        ELSE Append(security_rules, r)

\* The break is missing: every rule of the name is extended.
UpdatedRulesExtendAll(security_rules, rule_name, ports) ==
    LET s == ScanRules(security_rules, 1, rule_name, 0)
    IN  IF s.rule_exist
        THEN [ k \in 1..Len(security_rules) |->
                 IF security_rules[k].name = rule_name
                 THEN [security_rules[k] EXCEPT
                         !.destination_port_ranges = ExtendPorts(@, ports)]
                 ELSE security_rules[k] ]
        ELSE Append(security_rules,
                    create_security_rule(rule_name,
                                         NewPriority(s.max_inbound_priority),
                                         ports))

\* The new rule is put in front of the list.
UpdatedRulesInsertFirst(security_rules, rule_name, ports) ==
    LET s == ScanRules(security_rules, 1, rule_name, 0)
    IN  IF s.rule_exist
        THEN [security_rules EXCEPT
                ![s.at].destination_port_ranges = ExtendPorts(@, ports)]
        ELSE <<create_security_rule(rule_name,
                                    NewPriority(s.max_inbound_priority),
                                    ports)>> \o security_rules

\* The body of the try block up to the write: nsg.security_rules after the
\* scan has extended the rule it found, or after the new rule was appended.
UpdatedRules(security_rules, rule_name, ports) ==
    LET s == ScanRules(security_rules, 1, rule_name, 0)
    IN  IF s.rule_exist
        THEN [security_rules EXCEPT
                ![s.at].destination_port_ranges = ExtendPorts(@, ports)]
        ELSE Append(security_rules,
                    create_security_rule(rule_name,
                                         NewPriority(s.max_inbound_priority),
                                         ports))

\* ----------------------------------------------------------------- state
VARIABLES
    store,    \* the control plane: security group name -> its list of rules
    call,     \* the running (or last finished) call: its arguments, locals,
              \* the store requests it made, and how it ended
    prev,     \* the call before it, as it ended
    ncalls,   \* number of calls started so far
    asked,    \* what the open_ports calls that reached the store asked for
    peer,     \* the call of a second caller, running at the same time
    sdk       \* the last get_azure_sdk_function call: arguments and outcome

vars == <<store, call, prev, ncalls, asked, peer, sdk>>

NsgSet == { NsgNames[k] : k \in 1..Len(NsgNames) }

\* A request sent to the store.
ListRequest(resource_group) ==
    [ op |-> "list", resource_group |-> resource_group,
      name |-> "", security_rules |-> <<>> ]

\* The first two arguments in the wrong order.
UpdateRequestSwapped(resource_group, name, security_rules) ==
    [ op |-> "create_or_update", resource_group |-> name,
      name |-> resource_group, security_rules |-> security_rules ]

UpdateRequest(resource_group, name, security_rules) ==
    [ op |-> "create_or_update", resource_group |-> resource_group,
      name |-> name, security_rules |-> security_rules ]

\* network_security_groups.list(resource_group): the groups, in list order.
ListNsgs(st) ==
    [ k \in 1..Len(NsgNames) |->
        [ name |-> NsgNames[k], security_rules |-> st[NsgNames[k]] ] ]

NoCall ==
    [ pc |-> "idle", op |-> "", cluster_name_on_cloud |-> "", ports |-> <<>>,
      provider_config |-> NoConfig, before |-> <<>>, nsgs |-> <<>>, idx |-> 0,
      requests |-> <<>>, written |-> <<>>, warnings |-> <<>>,
      status |-> "", error |-> "", raised_at |-> "" ]

\* A call as it starts: pc = "loop" is the for loop over the listed groups,
\* idx the group the loop is at; before is the store when the call started.
NewCall(op, cluster_name_on_cloud, ports, provider_config, st) ==
    [ NoCall EXCEPT !.pc = "loop", !.op = op,
                    !.cluster_name_on_cloud = cluster_name_on_cloud,
                    !.ports = ports, !.provider_config = provider_config,
                    !.before = st, !.status = "running" ]

Returned(c) == [c EXCEPT !.pc = "done", !.status = "returned"]

Raised(c, error, raised_at) ==
    [c EXCEPT !.pc = "done", !.status = "raised",
              !.error = error, !.raised_at = raised_at]

\* A plausible slip: resource_group read with a default instead of [].
ConfigErrorLenient(provider_config) ==
    IF ~provider_config.present THEN "AssertionError"
    ELSE IF "subscription_id" \notin provider_config.keys THEN "KeyError"
    ELSE ""

\* assert provider_config is not None
\* subscription_id = provider_config['subscription_id']
\* resource_group = provider_config['resource_group']
\* The exception these three lines raise, "" when they raise none.
ConfigError(provider_config) ==
    IF ~provider_config.present THEN "AssertionError"
    ELSE IF "subscription_id" \notin provider_config.keys THEN "KeyError"
    ELSE IF "resource_group" \notin provider_config.keys THEN "KeyError"
    ELSE ""

\* The for statement moves to the next listed group, or the function returns.
NextGroup(c) ==
    IF c.idx + 1 > Len(c.nsgs)
    THEN Returned([c EXCEPT !.idx = c.idx + 1])
    ELSE [c EXCEPT !.idx = c.idx + 1]

\* Plausible slips in the handler: it leaves the loop, or it re-raises.
OnHttpErrorBreak(c, name) ==
    Returned([c EXCEPT !.warnings = Append(@, name)])

OnHttpErrorRaise(c, name) ==
    Raised([c EXCEPT !.warnings = Append(@, name)],
           "HttpResponseError", "create_or_update")

\* except azure.http_error_exception() as e: logger.warning(...)
OnHttpError(c, name) ==
    NextGroup([c EXCEPT !.warnings = Append(@, name)])

\* ---------------------------------------------------------------- actions
\* ------------------------------------------ get_azure_sdk_function
\* The operations an SDK client object may expose, under the old name or
\* under the new name with the begin_ prefix.
FunctionNames == {"list", "create_or_update", "delete"}

Begin(function_name) == "begin_" \o function_name

\* A client object: the attributes it has that are operations, and whether
\* it has a __name__ attribute (classes and modules have one, the instances
\* of the SDK's operations classes have none).
Clients ==
    [ attrs : SUBSET { "list", Begin("list"),
                       "create_or_update", Begin("create_or_update") },
      has_name : BOOLEAN ]

\* getattr(client, name, default), None written "None".
GetAttr(client, name, default) ==
    IF name \in client.attrs THEN name ELSE default

\* get_azure_sdk_function(client, function_name): the attribute returned
\* (func), or the exception raised with the attribute names its message
\* holds. The message is built from client.__name__: on a client without
\* that attribute the lookup itself raises AttributeError, for __name__.
get_azure_sdk_function(client, function_name) ==
    LET func == GetAttr(client, function_name,
                        GetAttr(client, Begin(function_name), "None"))
    IN  IF func = "None"
        THEN IF client.has_name
             THEN [ raised |-> TRUE, func |-> "None", error |-> "AttributeError",
                    names |-> {function_name, Begin(function_name)} ]
             ELSE [ raised |-> TRUE, func |-> "None", error |-> "AttributeError",
                    names |-> {"__name__"} ]
        ELSE [ raised |-> FALSE, func |-> func, error |-> "", names |-> {} ]

NoResolution ==
    [ called |-> FALSE, client |-> [attrs |-> {}, has_name |-> FALSE],
      function_name |-> "",
      result |-> [ raised |-> FALSE, func |-> "None", error |-> "", names |-> {} ] ]

\* Nothing asked yet: opened are the clusters open_ports was called for with
\* a complete configuration, ports the (cluster, port entry) pairs of these
\* calls, failed whether a write of one of them did not succeed.
NothingAsked == [ opened |-> {}, ports |-> {}, failed |-> FALSE ]

Ask(a, cluster_name_on_cloud, ports) ==
    [ a EXCEPT !.opened = @ \cup {cluster_name_on_cloud},
               !.ports = @ \cup { <<cluster_name_on_cloud, ports[k]>> :
                                    k \in 1..Len(ports) } ]

Init ==
    /\ store \in [NsgSet -> InitRuleLists]
    /\ call = NoCall
    /\ prev = NoCall
    /\ ncalls = 0
    /\ asked = NothingAsked
    /\ peer = NoCall
    /\ sdk = NoResolution

\* A caller may start a call when no call is running (calls are serialized).
CanCall == call.pc # "loop" /\ ncalls < MaxCalls

\* open_ports up to the for statement: the configuration is read, and the
\* groups of the resource group are listed.
OpenPorts(cluster_name_on_cloud, ports, provider_config) ==
    /\ CanCall
    /\ LET c == NewCall("open_ports", cluster_name_on_cloud, ports,
                        provider_config, store)
           e == ConfigError(provider_config)
       IN  call' =
             IF e # ""
             THEN Raised(c, e, "provider_config")
             ELSE LET listed == [c EXCEPT
                                   !.requests = <<ListRequest(ResourceGroup)>>,
                                   !.nsgs = ListNsgs(store)]
                  IN  NextGroup(listed)
    /\ prev' = call
    /\ ncalls' = ncalls + 1
    /\ asked' = IF ConfigError(provider_config) = ""
                THEN Ask(asked, cluster_name_on_cloud, ports)
                ELSE asked
    /\ UNCHANGED <<store, peer, sdk>>

\* One iteration of the for loop, the write succeeding.
UpdateSucceeds ==
    /\ call.pc = "loop"
    /\ LET nsg   == call.nsgs[call.idx]
           rules == UpdatedRules(nsg.security_rules,
                                 RuleName(call.cluster_name_on_cloud),
                                 call.ports)
       IN  /\ store' = [store EXCEPT ![nsg.name] = rules]
           /\ call' = NextGroup(
                  [call EXCEPT
                     !.requests = Append(@, UpdateRequest(ResourceGroup,
                                                          nsg.name, rules)),
                     !.written = Append(@, nsg.name)])
    /\ UNCHANGED <<prev, ncalls, asked, peer, sdk>>

\* One iteration of the for loop, the write failing with an HTTP error.
UpdateFailsHttp ==
    /\ call.pc = "loop"
    /\ LET nsg   == call.nsgs[call.idx]
           rules == UpdatedRules(nsg.security_rules,
                                 RuleName(call.cluster_name_on_cloud),
                                 call.ports)
       IN  call' = OnHttpError(
                  [call EXCEPT
                     !.requests = Append(@, UpdateRequest(ResourceGroup,
                                                          nsg.name, rules))],
                  nsg.name)
    /\ asked' = [asked EXCEPT !.failed = TRUE]
    /\ UNCHANGED <<store, prev, ncalls, peer, sdk>>

\* A plausible slip: cleanup_ports deletes the cluster's rule from every group.
WithoutRule(rules, name) == SelectSeq(rules, LAMBDA r : r.name # name)

CleanupPortsDeletesRule(cluster_name_on_cloud, provider_config) ==
    /\ CanCall
    /\ LET c == NewCall("cleanup_ports", cluster_name_on_cloud, <<>>,
                        provider_config, store)
       IN  IF ConfigError(provider_config) # ""
           THEN /\ call' = Raised(c, ConfigError(provider_config),
                                  "provider_config")
                /\ UNCHANGED store
           ELSE /\ call' = Returned(
                       [c EXCEPT !.requests = <<ListRequest(ResourceGroup)>>,
                                 !.nsgs = ListNsgs(store),
                                 !.written = NsgNames])
                /\ store' = [g \in NsgSet |->
                               WithoutRule(store[g],
                                           RuleName(cluster_name_on_cloud))]
    /\ prev' = call
    /\ ncalls' = ncalls + 1
    /\ UNCHANGED <<asked, peer, sdk>>

\* cleanup_ports: del cluster_name_on_cloud, provider_config.
CleanupPorts(cluster_name_on_cloud, provider_config) ==
    /\ CanCall
    /\ call' = Returned(NewCall("cleanup_ports", cluster_name_on_cloud, <<>>,
                                provider_config, store))
    /\ prev' = call
    /\ ncalls' = ncalls + 1
    /\ UNCHANGED <<store, asked, peer, sdk>>

\* One iteration of the for loop, the write raising an exception that is
\* not an HTTP error (a connection failure, a timeout): no handler catches it.
UpdateRaisesOther ==
    /\ call.pc = "loop"
    /\ LET nsg   == call.nsgs[call.idx]
           rules == UpdatedRules(nsg.security_rules,
                                 RuleName(call.cluster_name_on_cloud),
                                 call.ports)
       IN  call' = Raised(
                  [call EXCEPT
                     !.requests = Append(@, UpdateRequest(ResourceGroup,
                                                          nsg.name, rules))],
                  "ServiceRequestError", "create_or_update")
    /\ asked' = [asked EXCEPT !.failed = TRUE]
    /\ UNCHANGED <<store, prev, ncalls, peer, sdk>>

\* The iterator list returned raises while it fetches the group the loop
\* is at: the for statement is outside the try block.
ListRaises ==
    /\ call.pc = "loop"
    /\ call' = Raised(call, "HttpResponseError", "list")
    /\ asked' = [asked EXCEPT !.failed = TRUE]
    /\ UNCHANGED <<store, prev, ncalls, peer, sdk>>

Next ==
    \/ \E c \in Clusters, p \in PortLists, cfg \in Configs : OpenPorts(c, p, cfg)
    \/ UpdateSucceeds
    \/ UpdateFailsHttp
    \/ \E c \in Clusters, cfg \in {NoConfig, [present |-> TRUE, keys |-> ConfigKeys]} :
          CleanupPorts(c, cfg)

\* The store fails only as its interface says: create_or_update may raise an
\* HTTP error.
Spec == Init /\ [][Next]_vars

NextFault ==
    \/ Next
    \/ UpdateRaisesOther
    \/ ListRaises

\* Any failure: writes may also raise other exceptions, and the enumeration
\* may raise.
SpecFault == Init /\ [][NextFault]_vars

\* ------------------------------------------------- a second caller
FullConfig == [present |-> TRUE, keys |-> ConfigKeys]

\* open_ports of the second caller, up to the for statement.
PeerOpenPorts(cluster_name_on_cloud, ports) ==
    /\ peer.pc = "idle"
    /\ peer' = NextGroup(
           [NewCall("open_ports", cluster_name_on_cloud, ports,
                    FullConfig, store)
              EXCEPT !.requests = <<ListRequest(ResourceGroup)>>,
                     !.nsgs = ListNsgs(store)])
    /\ UNCHANGED <<store, call, prev, ncalls, asked, sdk>>

\* Not the code: the group is read again right before it is written.
PeerUpdateSucceedsFromStore ==
    /\ peer.pc = "loop"
    /\ LET nsg   == peer.nsgs[peer.idx]
           rules == UpdatedRules(store[nsg.name],
                                 RuleName(peer.cluster_name_on_cloud),
                                 peer.ports)
       IN  /\ store' = [store EXCEPT ![nsg.name] = rules]
           /\ peer' = NextGroup(
                  [peer EXCEPT
                     !.requests = Append(@, UpdateRequest(ResourceGroup,
                                                          nsg.name, rules)),
                     !.written = Append(@, nsg.name)])
    /\ UNCHANGED <<call, prev, ncalls, asked, sdk>>

\* One iteration of the second caller's loop, the write succeeding: the
\* group as this caller listed it, updated, replaces the stored group.
PeerUpdateSucceeds ==
    /\ peer.pc = "loop"
    /\ LET nsg   == peer.nsgs[peer.idx]
           rules == UpdatedRules(nsg.security_rules,
                                 RuleName(peer.cluster_name_on_cloud),
                                 peer.ports)
       IN  /\ store' = [store EXCEPT ![nsg.name] = rules]
           /\ peer' = NextGroup(
                  [peer EXCEPT
                     !.requests = Append(@, UpdateRequest(ResourceGroup,
                                                          nsg.name, rules)),
                     !.written = Append(@, nsg.name)])
    /\ UNCHANGED <<call, prev, ncalls, asked, sdk>>

\* One iteration of the second caller's loop, the write failing with an
\* HTTP error.
PeerUpdateFailsHttp ==
    /\ peer.pc = "loop"
    /\ LET nsg   == peer.nsgs[peer.idx]
           rules == UpdatedRules(nsg.security_rules,
                                 RuleName(peer.cluster_name_on_cloud),
                                 peer.ports)
       IN  peer' = OnHttpError(
                  [peer EXCEPT
                     !.requests = Append(@, UpdateRequest(ResourceGroup,
                                                          nsg.name, rules))],
                  nsg.name)
    /\ UNCHANGED <<store, call, prev, ncalls, asked, sdk>>

\* Two callers, one open_ports call each, their steps interleaved freely.
NextConc ==
    \/ \E c \in Clusters, p \in PortLists : ncalls = 0 /\ OpenPorts(c, p, FullConfig)
    \/ UpdateSucceeds
    \/ UpdateFailsHttp
    \/ \E c \in Clusters, p \in PortLists : PeerOpenPorts(c, p)
    \/ PeerUpdateSucceeds
    \/ PeerUpdateFailsHttp

SpecConc == Init /\ [][NextConc]_vars

\* One call of get_azure_sdk_function.
ResolveOperation(client, function_name) ==
    /\ sdk' = [ called |-> TRUE, client |-> client,
                function_name |-> function_name,
                result |-> get_azure_sdk_function(client, function_name) ]
    /\ UNCHANGED <<store, call, prev, ncalls, asked, peer>>

NextSdk ==
    \E client \in Clients, function_name \in FunctionNames :
       ResolveOperation(client, function_name)

SpecSdk == Init /\ [][NextSdk]_vars

\* ---------------------------------------------- vocabulary of the claims
OpenRunning == call.op = "open_ports" /\ call.pc \in {"loop", "done"}

OpenDone == call.op = "open_ports" /\ call.pc = "done"

ConfigComplete(provider_config) ==
    provider_config.present /\ ConfigKeys \subseteq provider_config.keys

CallRuleName == RuleName(call.cluster_name_on_cloud)

Names(seq) == { seq[k] : k \in 1..Len(seq) }

\* The positions of the rules called name.
Named(rules, name) == { k \in 1..Len(rules) : rules[k].name = name }

HasRule(rules, name) == Named(rules, name) # {}

FirstNamed(rules, name) ==
    CHOOSE k \in Named(rules, name) : \A j \in Named(rules, name) : k <= j

InboundPriorities(rules) ==
    { rules[k].priority :
        k \in { j \in 1..Len(rules) : rules[j].direction = "Inbound" } }

OutboundPriorities(rules) ==
    { rules[k].priority :
        k \in { j \in 1..Len(rules) : rules[j].direction = "Outbound" } }

SetMax(S) == CHOOSE m \in S : \A x \in S : x <= m

\* The create_or_update requests of the running call.
UpdateRequests == SelectSeq(call.requests, LAMBDA r : r.op = "create_or_update")

\* The rule a request adds at the end of the rules the group held.
AddsRule(r, held) ==
    /\ Len(r.security_rules) = Len(held) + 1
    /\ SubSeq(r.security_rules, 1, Len(held)) = held

AddedRule(r) == r.security_rules[Len(r.security_rules)]

\* A request of the running call whose write succeeded reached the store.
Stored(r) == r.name \in Names(call.written) => store[r.name] = r.security_rules

\* ------------------------------------------------------------------- C1
\* C1: for a group without a rule named sky-ports-<cluster> whose inbound
\* rules have priorities p1..pn (n >= 1), open_ports adds a rule whose
\* priority is max(p1..pn) + 1, above every inbound priority of the group,
\* whatever the priorities of its outbound rules.
C1_NewPriorityIsMaxInboundPlusOne ==
    OpenRunning =>
      \A k \in 1..Len(UpdateRequests) :
        LET r    == UpdateRequests[k]
            held == call.before[r.name]
            inb  == InboundPriorities(held)
        IN  (~HasRule(held, CallRuleName) /\ inb # {}) =>
              /\ AddsRule(r, held)
              /\ AddedRule(r).name = CallRuleName
              /\ AddedRule(r).direction = "Inbound"
              /\ AddedRule(r).priority = SetMax(inb) + 1
              /\ \A p \in inb : AddedRule(r).priority > p
              /\ Stored(r)

\* A written group whose outbound rule outranks all its inbound rules.
C1_Witness ==
    /\ OpenDone
    /\ \E g \in Names(call.written) :
         /\ ~HasRule(call.before[g], CallRuleName)
         /\ InboundPriorities(call.before[g]) # {}
         /\ \E o \in OutboundPriorities(call.before[g]) :
              o > SetMax(InboundPriorities(call.before[g]))
         /\ Len(store[g]) = Len(call.before[g]) + 1

\* ------------------------------------------------------------------- C2
\* C2: when the group already holds a rule named sky-ports-<cluster>,
\* open_ports appends the requested ports, in order, to the end of that
\* rule's destination port ranges, changes no other field of the rule, and
\* adds no rule to the group.
C2_ExistingRuleExtended ==
    OpenRunning =>
      \A k \in 1..Len(UpdateRequests) :
        LET r    == UpdateRequests[k]
            held == call.before[r.name]
        IN  HasRule(held, CallRuleName) =>
              LET at == FirstNamed(held, CallRuleName)
              IN  /\ Len(r.security_rules) = Len(held)
                  /\ \A j \in 1..Len(held) :
                       j # at => r.security_rules[j] = held[j]
                  /\ r.security_rules[at] =
                       [held[at] EXCEPT !.destination_port_ranges =
                          held[at].destination_port_ranges \o call.ports]
                  /\ Stored(r)

C2_Witness ==
    /\ OpenDone
    /\ call.ports # <<>>
    /\ \E g \in Names(call.written) :
         /\ HasRule(call.before[g], CallRuleName)
         /\ store[g] # call.before[g]
         /\ Len(store[g]) = Len(call.before[g])

\* ------------------------------------------------------------------- C3
\* C3: whatever subset of the create_or_update calls fails with an HTTP
\* error, open_ports issues the call for every listed group, in list order,
\* the groups whose call did not fail are updated in the store, and the call
\* returns normally.
C3_HttpErrorsDoNotStopTheLoop ==
    (OpenDone /\ ConfigComplete(call.provider_config)) =>
      /\ call.status = "returned"
      /\ [k \in 1..Len(UpdateRequests) |-> UpdateRequests[k].name] = NsgNames
      /\ \A g \in NsgSet :
           /\ (g \in Names(call.written)) # (g \in Names(call.warnings))
           /\ g \in Names(call.written) =>
                \E k \in 1..Len(UpdateRequests) :
                  /\ UpdateRequests[k].name = g
                  /\ store[g] = UpdateRequests[k].security_rules

\* The first group failed, a later one was still written and changed.
C3_Witness ==
    /\ OpenDone
    /\ call.status = "returned"
    /\ \E i, j \in 1..Len(NsgNames) :
         /\ i < j
         /\ NsgNames[i] \in Names(call.warnings)
         /\ NsgNames[j] \in Names(call.written)
         /\ store[NsgNames[j]] # call.before[NsgNames[j]]

\* ------------------------------------------------------------------- C4
\* Two open_ports calls in sequence, same cluster and ports, every write of
\* both succeeding.
SameCallTwice ==
    /\ OpenDone
    /\ prev.op = "open_ports" /\ prev.pc = "done"
    /\ prev.cluster_name_on_cloud = call.cluster_name_on_cloud
    /\ prev.ports = call.ports
    /\ prev.written = NsgNames
    /\ call.written = NsgNames

C5_FirstInboundRuleHasPriorityOne ==
    OpenRunning =>
      \A k \in 1..Len(UpdateRequests) :
        LET r    == UpdateRequests[k]
            held == call.before[r.name]
        IN  (~HasRule(held, CallRuleName) /\ InboundPriorities(held) = {}) =>
              /\ AddsRule(r, held)
              /\ AddedRule(r).name = CallRuleName
              /\ AddedRule(r).priority = 1
              /\ Stored(r)

\* A written group that held outbound rules only.
C5_Witness ==
    /\ OpenDone
    /\ \E g \in Names(call.written) :
         /\ call.before[g] # <<>>
         /\ InboundPriorities(call.before[g]) = {}
         /\ Len(store[g]) = Len(call.before[g]) + 1
         /\ store[g][Len(store[g])].priority = 1

C7_MissingKeyRaisesBeforeAnyRequest ==
    (OpenDone /\ ~ConfigComplete(call.provider_config)) =>
      /\ call.status = "raised"
      /\ call.raised_at = "provider_config"
      /\ call.provider_config.present => call.error = "KeyError"
      /\ call.requests = <<>>
      /\ call.nsgs = <<>>
      /\ store = call.before

C7_Witness ==
    /\ OpenDone
    /\ call.provider_config.present
    /\ "resource_group" \notin call.provider_config.keys
    /\ call.error = "KeyError"
    /\ call.requests = <<>>

\* ------------------------------------------------------------------- C8
\* C8 as stated: with an empty ports list no group's stored rule list
\* changes, whether or not the group holds the cluster's rule.
C8_EmptyPortsChangeNoGroup ==
    (OpenDone /\ call.ports = <<>>) => store = call.before

\* C8, amended: with an empty ports list the stored rule list of every
\* group that already holds a rule named sky-ports-<cluster> is the same
\* after the call as before it; a group that holds none, and whose write
\* succeeds, gains that rule with an empty destination port list.
C8_EmptyPortsKeepGroupsHoldingTheRule ==
    (OpenDone /\ call.ports = <<>>) =>
      \A g \in NsgSet :
        LET held == call.before[g]
        IN  /\ HasRule(held, CallRuleName) => store[g] = held
            /\ g \notin Names(call.written) => store[g] = held
            /\ (~HasRule(held, CallRuleName) /\ g \in Names(call.written)) =>
                 /\ Len(store[g]) = Len(held) + 1
                 /\ SubSeq(store[g], 1, Len(held)) = held
                 /\ store[g][Len(store[g])].name = CallRuleName
                 /\ store[g][Len(store[g])].destination_port_ranges = <<>>

\* Both cases in one call: a written group that held the rule, and a
\* written group that did not.
C8_Witness ==
    /\ OpenDone
    /\ call.ports = <<>>
    /\ \E g, h \in Names(call.written) :
         /\ HasRule(call.before[g], CallRuleName)
         /\ store[g] = call.before[g]
         /\ ~HasRule(call.before[h], CallRuleName)
         /\ store[h] # call.before[h]

\* ------------------------------------------------------------------- C9
DistinctInboundPriorities(rules) ==
    \A i, j \in 1..Len(rules) :
      (i # j /\ rules[i].direction = "Inbound" /\ rules[j].direction = "Inbound")
        => rules[i].priority # rules[j].priority

\* C9: from a store whose groups have pairwise distinct inbound priorities,
\* after any sequence of serialized open_ports calls, each write succeeding
\* or failing with an HTTP error, the inbound rules of every group still
\* have pairwise distinct priorities.
C9_InboundPrioritiesStayDistinct ==
    \A g \in NsgSet : DistinctInboundPriorities(store[g])

\* A group that got the rules of both clusters next to older inbound rules.
C9_Witness ==
    /\ OpenDone
    /\ \E g \in Names(call.written) :
         /\ \A c \in Clusters : HasRule(store[g], RuleName(c))
         /\ Len(store[g]) = Len(call.before[g]) + 1
         /\ Cardinality(InboundPriorities(store[g])) >= 3

\* ------------------------------------------------------------------ C10
AtMostOneRule(rules, cluster) == Cardinality(Named(rules, RuleName(cluster))) <= 1

\* C10: a group that holds at most one rule named sky-ports-<c> for a
\* cluster c still holds at most one after every step of every open_ports
\* and cleanup_ports call.
C10_AtMostOneRulePerCluster ==
    [][ \A g \in NsgSet, c \in Clusters :
          AtMostOneRule(store[g], c) => AtMostOneRule(store'[g], c) ]_vars

\* A call wrote a group that already held its cluster's rule, and the group
\* holds one rule for each cluster.
C10_Witness ==
    /\ OpenDone
    /\ \E g \in Names(call.written) :
         /\ HasRule(call.before[g], CallRuleName)
         /\ \A c \in Clusters : Cardinality(Named(store[g], RuleName(c))) = 1

\* ------------------------------------------------------------------ C11
CleanupDone == call.op = "cleanup_ports" /\ call.pc = "done"

\* C11: cleanup_ports makes no store request, neither list nor
\* create_or_update, for any cluster and any provider_config, an absent one
\* included; it leaves every security group as it was and returns normally.
C11_CleanupMakesNoStoreRequest ==
    CleanupDone =>
      /\ call.status = "returned"
      /\ call.requests = <<>>
      /\ call.nsgs = <<>>
      /\ call.written = <<>>
      /\ store = call.before

\* cleanup_ports without a configuration, after an open_ports call left the
\* cluster's rule in a group.
C11_Witness ==
    /\ CleanupDone
    /\ ~call.provider_config.present
    /\ prev.op = "open_ports"
    /\ prev.written # <<>>
    /\ \E g \in NsgSet :
         /\ HasRule(store[g], CallRuleName)
         /\ ~HasRule(prev.before[g], CallRuleName)

\* ------------------------------------------------------------------ C12
PeerRuleName == RuleName(peer.cluster_name_on_cloud)

\* The create_or_update request a call sent for group g.
RequestFor(c, g) ==
    LET k == CHOOSE k \in 1..Len(c.requests) :
               c.requests[k].op = "create_or_update" /\ c.requests[k].name = g
    IN  c.requests[k]

\* Both callers listed the same rules for group k of the list, and the
\* write of each succeeded.
BothReadThenWrote(k) ==
    /\ call.op = "open_ports" /\ peer.op = "open_ports"
    /\ Len(call.nsgs) >= k /\ Len(peer.nsgs) >= k
    /\ call.nsgs[k].security_rules = peer.nsgs[k].security_rules
    /\ NsgNames[k] \in Names(call.written)
    /\ NsgNames[k] \in Names(peer.written)

\* C12: two open_ports calls that run at the same time are not safe. When
\* both read a group before either writes it, both compute the same new
\* priority, max_inbound_priority + 1, and the stored group is the one the
\* later create_or_update sent: it lacks the rule (the ports) the earlier
\* caller wrote.
C12_ConcurrentCallsLoseAnUpdate ==
    \A k \in 1..Len(NsgNames) :
      BothReadThenWrote(k) =>
        LET g    == NsgNames[k]
            held == call.nsgs[k].security_rules
            rc   == RequestFor(call, g)
            rp   == RequestFor(peer, g)
        IN  /\ store[g] \in {rc.security_rules, rp.security_rules}
            /\ (~HasRule(held, CallRuleName) /\ ~HasRule(held, PeerRuleName)) =>
                 /\ AddedRule(rc).priority = AddedRule(rp).priority
                 /\ AddedRule(rc).priority =
                      IF InboundPriorities(held) = {} THEN 1
                      ELSE SetMax(InboundPriorities(held)) + 1
                 /\ CallRuleName # PeerRuleName =>
                      ~(HasRule(store[g], CallRuleName) /\
                        HasRule(store[g], PeerRuleName))

\* Both calls have returned, every write succeeded, and a group holds the
\* second caller's rule only: the first caller's rule, written with the same
\* priority, is gone.
C12_Witness ==
    /\ call.pc = "done" /\ peer.pc = "done"
    /\ call.status = "returned" /\ peer.status = "returned"
    /\ call.warnings = <<>> /\ peer.warnings = <<>>
    /\ \E k \in 1..Len(NsgNames) :
         /\ BothReadThenWrote(k)
         /\ CallRuleName # PeerRuleName
         /\ ~HasRule(call.nsgs[k].security_rules, CallRuleName)
         /\ HasRule(RequestFor(call, NsgNames[k]).security_rules, CallRuleName)
         /\ ~HasRule(store[NsgNames[k]], CallRuleName)
         /\ HasRule(store[NsgNames[k]], PeerRuleName)
         /\ AddedRule(RequestFor(call, NsgNames[k])).priority =
              AddedRule(RequestFor(peer, NsgNames[k])).priority

\* ------------------------------------------------------------------ C13
Exposes(client, function_name) ==
    function_name \in client.attrs \/ Begin(function_name) \in client.attrs

\* C13: get_azure_sdk_function returns the operation whenever the client
\* exposes function_name or begin_<function_name> (the un-prefixed attribute
\* when it exists, else the prefixed one), and raises an AttributeError that
\* names both candidate attribute names exactly when it exposes neither.
C13_ResolvesOrNamesBothCandidates ==
    sdk.called =>
      LET f == sdk.function_name
      IN  /\ Exposes(sdk.client, f) =>
               /\ ~sdk.result.raised
               /\ sdk.result.func =
                    IF f \in sdk.client.attrs THEN f ELSE Begin(f)
          /\ ~Exposes(sdk.client, f) =>
               /\ sdk.result.raised
               /\ sdk.result.error = "AttributeError"
               /\ {f, Begin(f)} \subseteq sdk.result.names

\* ------------------------------------------------------------------ C14
IsPrefix(a, b) == Len(a) <= Len(b) /\ SubSeq(b, 1, Len(a)) = a

IsClusterRule(rule) == rule.name \in { RuleName(c) : c \in Clusters }

\* C14: through serialized open_ports and cleanup_ports calls a stored rule
\* named sky-ports-<c> is never removed from its group, and its destination
\* port ranges only grow: what is stored before a step is a prefix of what
\* is stored after it.
C14_ClusterRulesOnlyGrow ==
    [][ \A g \in NsgSet : \A k \in 1..Len(store[g]) :
          IsClusterRule(store[g][k]) =>
            /\ k <= Len(store'[g])
            /\ store'[g][k].name = store[g][k].name
            /\ IsPrefix(store[g][k].destination_port_ranges,
                        store'[g][k].destination_port_ranges) ]_vars

\* A rule the call before created, and this call made longer.
C14_Witness ==
    /\ OpenDone
    /\ prev.op = "open_ports" /\ prev.pc = "done"
    /\ \E g \in Names(call.written) :
         /\ ~HasRule(prev.before[g], CallRuleName)
         /\ HasRule(call.before[g], CallRuleName)
         /\ LET old == call.before[g][FirstNamed(call.before[g], CallRuleName)]
                new == store[g][FirstNamed(store[g], CallRuleName)]
            IN  /\ Len(new.destination_port_ranges) >
                     Len(old.destination_port_ranges)
                /\ IsPrefix(old.destination_port_ranges,
                            new.destination_port_ranges)

\* ------------------------------------------------------------------ C15
\* C15: when a group holds more than one rule named sky-ports-<cluster>,
\* open_ports appends the ports to the first of them in list order only,
\* leaves every later rule of that name as it was, creates no rule, and
\* raises nothing: the group is sent to the store like any other.
C15_OnlyFirstOfDuplicatesExtended ==
    OpenRunning =>
      \A k \in 1..Len(UpdateRequests) :
        LET r    == UpdateRequests[k]
            held == call.before[r.name]
            dup  == Named(held, CallRuleName)
        IN  Cardinality(dup) > 1 =>
              LET first == FirstNamed(held, CallRuleName)
              IN  /\ Len(r.security_rules) = Len(held)
                  /\ r.security_rules[first].destination_port_ranges =
                       held[first].destination_port_ranges \o call.ports
                  /\ \A j \in dup \ {first} : r.security_rules[j] = held[j]
                  /\ Cardinality(Named(r.security_rules, CallRuleName)) =
                       Cardinality(dup)
                  /\ call.status # "raised"
                  /\ Stored(r)

C15_Witness ==
    /\ OpenDone
    /\ call.status = "returned"
    /\ call.ports # <<>>
    /\ \E g \in Names(call.written) :
         LET dup == Named(call.before[g], CallRuleName)
         IN  /\ Cardinality(dup) > 1
             /\ \E i, j \in dup :
                  /\ i < j
                  /\ store[g][i] # call.before[g][i]
                  /\ store[g][j] = call.before[g][j]

\* ------------------------------------------------------------------ C16
\* C16: in an open_ports call with a complete configuration, the groups are
\* listed once for the configured resource group, and the listed groups get
\* one create_or_update request each, in list order, addressed by that
\* resource group and the group's own name: while the loop runs the requests
\* sent are those for the first groups of the list, when the call returns
\* those for all of them; no other group is written.
C16_OneRequestPerListedGroupInOrder ==
    (OpenRunning /\ ConfigComplete(call.provider_config)) =>
      /\ call.requests[1] = ListRequest(ResourceGroup)
      /\ Len(UpdateRequests) = Len(call.requests) - 1
      /\ Len(UpdateRequests) <= Len(call.nsgs)
      /\ \A k \in 1..Len(UpdateRequests) :
           /\ UpdateRequests[k].resource_group = ResourceGroup
           /\ UpdateRequests[k].name = call.nsgs[k].name
           /\ UpdateRequests[k].name = NsgNames[k]
      /\ call.pc = "loop" => Len(UpdateRequests) = call.idx - 1
      /\ call.status = "returned" => Len(UpdateRequests) = Len(NsgNames)
      /\ \A g \in DOMAIN store :
           store[g] # call.before[g] => g \in Names(call.written)
      /\ Names(call.written) \cup Names(call.warnings) =
           { UpdateRequests[k].name : k \in 1..Len(UpdateRequests) }

\* A finished call: one group's write failed (it was not sent again), the
\* other group's succeeded.
C16_Witness ==
    /\ OpenDone
    /\ call.status = "returned"
    /\ Len(UpdateRequests) = Len(NsgNames)
    /\ call.warnings # <<>>
    /\ call.written # <<>>

\* ------------------------------------------------------------------ C17
\* The port entries of the first rule named sky-ports-<cluster> of a group.
PortsOf(rules, cluster) ==
    Names(rules[FirstNamed(rules, RuleName(cluster))].destination_port_ranges)

\* C17: with serialized calls and every write succeeding no update is lost:
\* after open_ports calls for any clusters with any port lists, in any
\* order, every group holds a rule sky-ports-<c> for each cluster c a call
\* was made for, and that rule's destination port ranges hold every port
\* entry a call asked for c.
C17_NoUpdateLostWhenSerialized ==
    (call.pc # "loop" /\ ~asked.failed) =>
      \A g \in NsgSet :
        /\ \A c \in asked.opened : HasRule(store[g], RuleName(c))
        /\ \A cp \in asked.ports : cp[2] \in PortsOf(store[g], cp[1])

\* Two calls, one per cluster, each with ports, every write succeeding; a
\* group that held neither rule holds both.
C17_Witness ==
    /\ OpenDone
    /\ ~asked.failed
    /\ asked.opened = Clusters
    /\ \A c \in Clusters : \E cp \in asked.ports : cp[1] = c
    /\ \E g \in NsgSet :
         /\ \A c \in Clusters : ~HasRule(prev.before[g], RuleName(c))
         /\ \A c \in Clusters : HasRule(store[g], RuleName(c))

\* ------------------------------------------------------------------ C18
\* C18: in every group it writes, open_ports leaves all rules other than
\* the first rule named sky-ports-<cluster> as they were, each at its place:
\* none is removed, changed or moved; a rule it creates is put at the end of
\* the list.
C18_OtherRulesKeptInPlace ==
    OpenRunning =>
      \A k \in 1..Len(UpdateRequests) :
        LET r    == UpdateRequests[k]
            held == call.before[r.name]
            sent == r.security_rules
        IN  /\ IF HasRule(held, CallRuleName)
               THEN /\ Len(sent) = Len(held)
                    /\ \A j \in 1..Len(held) :
                         j # FirstNamed(held, CallRuleName) => sent[j] = held[j]
               ELSE /\ Len(sent) = Len(held) + 1
                    /\ \A j \in 1..Len(held) : sent[j] = held[j]
                    /\ sent[Len(sent)].name = CallRuleName
            /\ Stored(r)

\* A rule created behind two older rules, which stay where they were.
C18_Witness ==
    /\ OpenDone
    /\ \E g \in Names(call.written) :
         /\ ~HasRule(call.before[g], CallRuleName)
         /\ Len(call.before[g]) >= 2
         /\ Len(store[g]) = Len(call.before[g]) + 1
         /\ store[g][Len(store[g])].name = CallRuleName
         /\ \A j \in 1..Len(call.before[g]) : store[g][j] = call.before[g][j]

====
